---- MODULE Spec2Model ----
\* Model of ib/opt/receiver.py: the Receiver's dispatch table, its
\* registration operations and dispatch with per-listener fault handling.
EXTENDS Integers, Sequences, FiniteSets, TLC

\* ---------------------------------------------------------------- bounds
NumListeners == 3
MaxOps == 4
NumThreads == 2

Listeners == 1..NumListeners
\* The threads that call register and unregister beside the reader thread.
Threads == 1..NumThreads

\* ---------------------------------------------------------------- values
IntV(s) == [t |-> "int", v |-> s]
StrV(s) == [t |-> "str", v |-> s]
None == [t |-> "NoneType", v |-> "None"]

Range(s) == {s[i] : i \in DOMAIN s}

\* ------------------------------------------- objects given as *types / obj
\* A message type (a class: it has __name__ and __slots__) and a plain string.
TypeObj(n, slots) == [kind |-> "type", name |-> n, slots |-> slots]
StrObj(s) == [kind |-> "str", name |-> s, slots |-> <<>>]

NextValidId == TypeObj("NextValidId", <<"orderId">>)
Error == TypeObj("Error", <<"id", "errorCode", "errorMsg">>)

\* ib.opt.message.registry: method name -> message type.
RegistryNames == {"error", "nextValidId"}
registry == [n \in RegistryNames |-> IF n = "error" THEN Error ELSE NextValidId]
\* registry.values()
RegistryValues == <<registry["error"], registry["nextValidId"]>>

\* The objects the operations are called with, and the names dispatched.
Objects == {NextValidId, Error, StrObj("error")}
DispatchNames == RegistryNames \cup {"nosuch"}
TypeSeqs == {<<>>, <<NextValidId, Error>>} \cup {<<o>> : o \in Objects}

\* Field mappings handed to dispatch.
EmptyMapping == [f \in {} |-> None]
Mappings ==
    { [f \in {"orderId"} |-> IntV("7")],
      [f \in {"errorMsg"} |-> StrV("timeout")] }

\* ------------------------------------------------------------ Receiver.key
HasName(obj) == obj.kind = "type"
str(obj) == obj.name
key(obj) == IF HasName(obj) THEN obj.name ELSE str(obj)

\* ------------------------------------------------- message construction
\* Message.__init__(**kwds): every slot is set from kwds (None when missing),
\* and any keyword that is no slot is rejected.
CtorAccepts(mtype, mapping) == DOMAIN mapping \subseteq Range(mtype.slots)
Message(mtype, mapping) ==
    [typeName |-> mtype.name,
     fields |-> [f \in Range(mtype.slots) |->
                    IF f \in DOMAIN mapping THEN mapping[f] ELSE None]]

\* ------------------------------------------------------- list operations
\* list.remove(x): drops the first occurrence of x.
FirstIndex(lst, x) == CHOOSE i \in 1..Len(lst) :
                          lst[i] = x /\ \A j \in 1..(i - 1) : lst[j] # x
ListRemove(lst, x) ==
    LET i == FirstIndex(lst, x)
    IN  SubSeq(lst, 1, i - 1) \o SubSeq(lst, i + 1, Len(lst))

\* ------------------------------------------------------ Receiver.register
\* (A variant that appends without looking whether the listener is there.)
RegisterAlways(tbl, l, mtype) ==
    LET k == key(mtype)
        cur == IF k \in DOMAIN tbl THEN tbl[k] ELSE <<>>
    IN  (k :> Append(cur, l)) @@ tbl
\* (A variant that puts the listener in front of the list.)
RegisterFirst(tbl, l, mtype) ==
    LET k == key(mtype)
        cur == IF k \in DOMAIN tbl THEN tbl[k] ELSE <<>>
    IN  (k :> (IF l \in Range(cur) THEN cur ELSE <<l>> \o cur)) @@ tbl
\* One turn of register's loop: setdefault(key, []) then append if absent.
RegisterOne(tbl, l, mtype) ==
    LET k == key(mtype)
        cur == IF k \in DOMAIN tbl THEN tbl[k] ELSE <<>>
    IN  (k :> (IF l \in Range(cur) THEN cur ELSE Append(cur, l))) @@ tbl

RECURSIVE register(_, _, _)
register(tbl, l, types) ==
    IF types = <<>> THEN tbl
    ELSE register(RegisterOne(tbl, l, Head(types)), l, Tail(types))

\* ---------------------------------------------------- Receiver.unregister
\* (A variant that drops l from every list of the table.)
UnregisterEverywhere(tbl, l, mtype) ==
    [k \in DOMAIN tbl |->
        IF l \in Range(tbl[k]) THEN ListRemove(tbl[k], l) ELSE tbl[k]]
\* (A variant that, like register, makes an entry for a key without one.)
UnregisterCreating(tbl, l, mtype) ==
    LET k == key(mtype)
    IN  IF k \notin DOMAIN tbl THEN (k :> <<>>) @@ tbl
        ELSE IF l \in Range(tbl[k])
             THEN [tbl EXCEPT ![k] = ListRemove(@, l)]
             ELSE tbl
\* One turn of unregister's loop.
UnregisterOne(tbl, l, mtype) ==
    LET k == key(mtype)
    IN  IF k \notin DOMAIN tbl THEN tbl
        ELSE IF l \in Range(tbl[k])
             THEN [tbl EXCEPT ![k] = ListRemove(@, l)]
             ELSE tbl

RECURSIVE unregister(_, _, _)
unregister(tbl, l, types) ==
    IF types = <<>> THEN tbl
    ELSE unregister(UnregisterOne(tbl, l, Head(types)), l, Tail(types))

Pairs(l, types) == {<<l, key(types[i])>> : i \in DOMAIN types}

\* ------------------------------------------------------------- listeners
\* What a listener does when it is called with a message: return, raise an
\* Exception, raise a BaseException that is no Exception (KeyboardInterrupt,
\* SystemExit), or call back into the Receiver for the dispatched type.
Behaviour(kind, target) == [kind |-> kind, target |-> target]
Ok == Behaviour("ok", 0)
Behaviours ==
    {Ok, Behaviour("raise", 0), Behaviour("interrupt", 0),
     Behaviour("reregister", 0)}
    \cup {Behaviour("unregister", o) : o \in Listeners}

\* The diagnostic output of one listener fault (dispatch, lines 89-98).
Report(l, name) ==
    << [stream |-> "stdout", text |-> "line", listener |-> l, name |-> name],
       [stream |-> "stdout", text |-> "errmsg", listener |-> l, name |-> name],
       [stream |-> "stdout", text |-> "line", listener |-> l, name |-> name],
       [stream |-> "stderr", text |-> "traceback", listener |-> l, name |-> name],
       [stream |-> "stdout", text |-> "blank", listener |-> l, name |-> name] >>

\* The body of listener l, run on the running dispatch r.
ListenerBody(r, l, b, mtype) ==
    IF b.kind = "unregister"
    THEN [r EXCEPT !.tbl = unregister(@, b.target, <<mtype>>),
                   !.removed = @ \cup {<<b.target, key(mtype)>>}]
    ELSE IF b.kind = "reregister"
    THEN [r EXCEPT !.tbl = register(unregister(@, l, <<mtype>>), l, <<mtype>>),
                   !.removed = @ \ {<<l, key(mtype)>>},
                   !.dropped = @ \ {<<l, key(mtype)>>}]
    ELSE r

\* ------------------------------------------------------ Receiver.dispatch
\* The for loop over the type's listener list (lines 84-98). The list is the
\* table's own list object: the loop reads position i of the list as it is
\* at that moment and stops when i is past its end.
\* One turn of the loop: listener l at position i is called (lines 85-98).
FanOutStep(r, i, mtype, name, message, beh) ==
    LET l == r.tbl[key(mtype)][i]
        k == key(mtype)
        called == [r EXCEPT
            !.calls = Append(@, [listener |-> l, message |-> message]),
            !.calledDropped =
                IF <<l, k>> \in r.dropped THEN @ \cup {l} ELSE @,
            !.calledRemoved =
                IF <<l, k>> \in r.removed THEN @ \cup {l} ELSE @]
        r1 == ListenerBody(called, l, beh[l], mtype)
    IN  IF beh[l].kind = "raise"
        THEN [r1 EXCEPT
                 !.tbl = unregister(@, l, <<mtype>>),
                 !.faulted = @ \cup {l},
                 !.dropped = @ \cup {<<l, key(mtype)>>},
                 !.out = @ \o Report(l, name)]
        ELSE IF beh[l].kind = "interrupt"
        THEN [r1 EXCEPT !.outcome = "raised",
                        !.faulted = @ \cup {l},
                        !.dropped = @ \cup {<<l, key(mtype)>>}]
        ELSE r1

RECURSIVE FanOut(_, _, _, _, _, _)
FanOut(r, i, mtype, name, message, beh) ==
    IF r.outcome # "running" \/ i > Len(r.tbl[key(mtype)]) THEN r
    ELSE FanOut(FanOutStep(r, i, mtype, name, message, beh),
                i + 1, mtype, name, message, beh)

Running(tbl, dr, rm) ==
    [tbl |-> tbl, calls |-> <<>>, faulted |-> {}, out |-> <<>>,
     outcome |-> "running", dropped |-> dr, removed |-> rm,
     calledDropped |-> {}, calledRemoved |-> {}]

Returned(r) == IF r.outcome = "running" THEN [r EXCEPT !.outcome = "returned"]
               ELSE r

dispatch(tbl, dr, rm, name, mapping, beh) ==
    IF name \notin DOMAIN registry THEN Returned(Running(tbl, dr, rm))
    ELSE LET mtype == registry[name]
         IN  IF key(mtype) \notin DOMAIN tbl THEN Returned(Running(tbl, dr, rm))
             ELSE IF ~CtorAccepts(mtype, mapping)
             THEN [Running(tbl, dr, rm) EXCEPT !.outcome = "raised"]
             ELSE Returned(FanOut(Running(tbl, dr, rm), 1, mtype, name,
                                  Message(mtype, mapping), beh))

\* ----------------------------------------------------------------- state
VARIABLES
    listeners,   \* self.listeners: key -> list of listeners
    dropped,     \* <<l, k>>: l raised in a dispatch of k, not registered for k since
    removed,     \* <<l, k>>: l was unregistered from k, not registered for k since
    last,        \* the last call made on the Receiver and what it did
    ops,         \* number of calls made
    limit,       \* number of calls the run is observed for
    run,         \* a dispatch in progress on the reader thread
    workers      \* register / unregister calls in progress on other threads

vars == <<listeners, dropped, removed, last, ops, limit, run, workers>>

EmptyTable == [k \in {} |-> <<>>]

\* Every listener returns at once.
AllOk == [l \in Listeners |-> Ok]

\* l is in the list of every type named in types.
Already(tbl, l, types) ==
    /\ types # <<>>
    /\ \A i \in DOMAIN types :
          /\ key(types[i]) \in DOMAIN tbl
          /\ l \in Range(tbl[key(types[i])])

Call(op, l, types, name, mapping, beh, start, r) ==
    [op |-> op, listener |-> l, types |-> types, name |-> name,
     mapping |-> mapping, beh |-> beh, start |-> start,
     already |-> Already(listeners, l, types), calls |-> r.calls,
     faulted |-> r.faulted, outcome |-> r.outcome, out |-> r.out,
     calledDropped |-> r.calledDropped, calledRemoved |-> r.calledRemoved,
     args |-> <<>>, argnames |-> <<>>, forwards |-> <<>>]

\* No dispatch is in progress.
Idle ==
    [active |-> FALSE, name |-> "", mapping |-> EmptyMapping, beh |-> AllOk,
     start |-> <<>>, i |-> 0, calls |-> <<>>, faulted |-> {}, out |-> <<>>,
     calledDropped |-> {}, calledRemoved |-> {}, outcome |-> "returned",
     pc |-> "idle", cur |-> 0]

\* A thread that is in no call.
IdleWorker ==
    [pc |-> "idle", op |-> "", listener |-> 0, types |-> <<>>, rest |-> <<>>,
     already |-> FALSE]

\* Receiver(listeners=tbl): the table given to the constructor is the table.
ConstructedWith(tbl) ==
    /\ listeners = tbl
    /\ dropped = {}
    /\ removed = {}
    /\ ops = 0
    /\ run = Idle
    /\ workers = [t \in Threads |-> IdleWorker]
    /\ last = [op |-> "init", listener |-> 0, types |-> <<>>, name |-> "",
               mapping |-> EmptyMapping, beh |-> AllOk, start |-> <<>>,
               already |-> FALSE, calls |-> <<>>, faulted |-> {},
               outcome |-> "returned", out |-> <<>>,
               calledDropped |-> {}, calledRemoved |-> {},
               args |-> <<>>, argnames |-> <<>>, forwards |-> <<>>]

\* Receiver(): an empty table.
Constructed == ConstructedWith(EmptyTable)

Init == Constructed /\ limit = MaxOps
InitShort == Constructed /\ limit = MaxOps - 1

Quiet(tbl) == Returned(Running(tbl, dropped, removed))

Register(l, types) ==
    /\ ops < limit
    /\ listeners' = register(listeners, l, types)
    /\ dropped' = dropped \ Pairs(l, types)
    /\ removed' = removed \ Pairs(l, types)
    /\ last' = Call("register", l, types, "", EmptyMapping, AllOk, <<>>, Quiet(listeners))
    /\ ops' = ops + 1
    /\ UNCHANGED <<limit, run, workers>>

RegisterAll(l) ==
    /\ ops < limit
    /\ listeners' = register(listeners, l, RegistryValues)
    /\ dropped' = dropped \ Pairs(l, RegistryValues)
    /\ removed' = removed \ Pairs(l, RegistryValues)
    /\ last' = Call("registerAll", l, RegistryValues, "", EmptyMapping, AllOk, <<>>,
                    Quiet(listeners))
    /\ ops' = ops + 1
    /\ UNCHANGED <<limit, run, workers>>

Unregister(l, types) ==
    /\ ops < limit
    /\ listeners' = unregister(listeners, l, types)
    /\ removed' = removed \cup Pairs(l, types)
    /\ last' = Call("unregister", l, types, "", EmptyMapping, AllOk, <<>>, Quiet(listeners))
    /\ ops' = ops + 1
    /\ UNCHANGED <<limit, run, workers>>
    /\ UNCHANGED dropped

UnregisterAll(l) ==
    /\ ops < limit
    /\ listeners' = unregister(listeners, l, RegistryValues)
    /\ removed' = removed \cup Pairs(l, RegistryValues)
    /\ last' = Call("unregisterAll", l, RegistryValues, "", EmptyMapping, AllOk, <<>>,
                    Quiet(listeners))
    /\ ops' = ops + 1
    /\ UNCHANGED <<limit, run, workers>>
    /\ UNCHANGED dropped

\* The list dispatch(name, ...) iterates, as it is when the call starts.
StartList(tbl, name) ==
    IF name \in DOMAIN registry /\ key(registry[name]) \in DOMAIN tbl
    THEN tbl[key(registry[name])] ELSE <<>>

\* The behaviours of one dispatch: a listener outside the list at the start
\* of the dispatch is never called in it.
BehaviourChoices(start) ==
    {[l \in Listeners |-> IF l \in Range(start) THEN f[l] ELSE Ok] :
        f \in [Range(start) -> Behaviours]}

Dispatch(name, mapping, beh) ==
    /\ LET r == dispatch(listeners, dropped, removed, name, mapping, beh)
       IN  /\ listeners' = r.tbl
           /\ dropped' = r.dropped
           /\ removed' = r.removed
           /\ last' = Call("dispatch", 0, <<>>, name, mapping, beh,
                           StartList(listeners, name), r)
    /\ ops' = ops + 1
    /\ UNCHANGED <<limit, run, workers>>

\* One incoming event: dispatch is called with some name and mapping while
\* the listeners behave in some way.
DispatchEvent ==
    /\ ops < limit
    /\ \E name \in DispatchNames, mapping \in Mappings :
          \E beh \in BehaviourChoices(StartList(listeners, name)) :
              Dispatch(name, mapping, beh)

Next ==
    \/ \E l \in Listeners, types \in TypeSeqs : Register(l, types)
    \/ \E l \in Listeners : RegisterAll(l)
    \/ \E l \in Listeners, types \in TypeSeqs : Unregister(l, types)
    \/ \E l \in Listeners : UnregisterAll(l)
    \/ DispatchEvent

Spec == Init /\ [][Next]_vars

\* The same Receiver observed for one call less.
SpecShort == InitShort /\ [][Next]_vars

\* A Receiver constructed with a table that already holds two listeners for
\* the Error type, then registrations, removals and dispatches.
SeededTable == ("Error" :> <<1, 2>>)
InitSeeded == ConstructedWith(SeededTable) /\ limit = MaxOps - 2
NextOrder ==
    \/ \E l \in Listeners, types \in TypeSeqs : Register(l, types)
    \/ \E l \in Listeners, types \in TypeSeqs : Unregister(l, types)
    \/ DispatchEvent
SpecSeeded == InitSeeded /\ [][NextOrder]_vars

\* ------------------------------------------- dispatch beside other threads
\* The Receiver holds no lock. Every call is a series of steps, one per
\* access to the table, and the steps of the reader thread's dispatch and of
\* the other threads' register and unregister calls interleave freely.
\* What a listener does in this setting: it returns or raises an Exception.
PlainBehaviours == {Ok, Behaviour("raise", 0)}

\* The running dispatch as the record the loop works on.
RunRecord ==
    [tbl |-> listeners, calls |-> run.calls, faulted |-> run.faulted,
     out |-> run.out, outcome |-> run.outcome, dropped |-> dropped,
     removed |-> removed, calledDropped |-> run.calledDropped,
     calledRemoved |-> run.calledRemoved]

\* The list the running dispatch iterates.
RunList == listeners[key(registry[run.name])]

\* Lines 77-83: the type and its list are found and the message is built;
\* without a list dispatch returns, and a rejected mapping raises.
BeginDispatch(name, mapping) ==
    /\ ops < limit
    /\ ~run.active
    /\ IF /\ key(registry[name]) \in DOMAIN listeners
          /\ CtorAccepts(registry[name], mapping)
       THEN /\ run' = [Idle EXCEPT !.active = TRUE, !.name = name,
                                   !.mapping = mapping,
                                   !.start = StartList(listeners, name),
                                   !.i = 1, !.outcome = "running",
                                   !.pc = "head"]
            /\ UNCHANGED last
       ELSE /\ last' = Call("dispatch", 0, <<>>, name, mapping, AllOk,
                            StartList(listeners, name),
                            dispatch(listeners, dropped, removed, name,
                                     mapping, AllOk))
            /\ UNCHANGED run
    /\ ops' = ops + 1
    /\ UNCHANGED <<listeners, dropped, removed, limit, workers>>

\* Line 84: the loop takes the listener at its position of the list.
FetchListener ==
    /\ run.active /\ run.outcome = "running" /\ run.pc = "head"
    /\ run.i <= Len(RunList)
    /\ run' = [run EXCEPT !.cur = RunList[run.i], !.i = @ + 1, !.pc = "body"]
    /\ UNCHANGED <<listeners, dropped, removed, last, ops, limit, workers>>

\* Lines 85-87: listener(message) does b: it returns or raises an Exception.
CallListener(b) ==
    /\ run.active /\ run.pc = "body"
    /\ LET l == run.cur
           k == key(registry[run.name])
           raises == b.kind = "raise"
       IN  run' = [run EXCEPT
                      !.beh[l] = b,
                      !.calls = Append(@, [listener |-> l,
                                           message |-> Message(registry[run.name],
                                                               run.mapping)]),
                      !.calledDropped =
                          IF <<l, k>> \in dropped THEN @ \cup {l} ELSE @,
                      !.calledRemoved =
                          IF <<l, k>> \in removed THEN @ \cup {l} ELSE @,
                      !.faulted = IF raises THEN @ \cup {l} ELSE @,
                      !.pc = IF raises THEN "handler_test" ELSE "head"]
    /\ UNCHANGED <<listeners, dropped, removed, last, ops, limit, workers>>

\* Line 88, in unregister lines 129-135: the list is found and tested.
HandlerTest ==
    /\ run.active /\ run.pc = "handler_test"
    /\ run' = [run EXCEPT !.pc = IF run.cur \in Range(RunList)
                                 THEN "handler_remove" ELSE "report"]
    /\ UNCHANGED <<listeners, dropped, removed, last, ops, limit, workers>>

\* Line 88, in unregister line 136: list.remove raises ValueError when the
\* listener is no longer in the list, and the error leaves dispatch.
HandlerRemove ==
    /\ run.active /\ run.pc = "handler_remove"
    /\ LET k == key(registry[run.name])
       IN  IF run.cur \in Range(RunList)
           THEN /\ listeners' = [listeners EXCEPT ![k] = ListRemove(@, run.cur)]
                /\ dropped' = dropped \cup {<<run.cur, k>>}
                /\ run' = [run EXCEPT !.pc = "report"]
           ELSE /\ run' = [run EXCEPT !.outcome = "raised", !.pc = "head"]
                /\ UNCHANGED <<listeners, dropped>>
    /\ UNCHANGED <<removed, last, ops, limit, workers>>

\* Lines 89-98: the report is written.
HandlerReport ==
    /\ run.active /\ run.pc = "report"
    /\ run' = [run EXCEPT !.out = @ \o Report(run.cur, run.name), !.pc = "head"]
    /\ UNCHANGED <<listeners, dropped, removed, last, ops, limit, workers>>

\* Line 84: the loop's position is past the end of the list and dispatch
\* returns; or an error has left the loop.
EndDispatch ==
    /\ run.active /\ run.pc = "head"
    /\ \/ run.outcome # "running"
       \/ run.i > Len(RunList)
    /\ last' = Call("dispatch", 0, <<>>, run.name, run.mapping, run.beh,
                    run.start, Returned(RunRecord))
    /\ run' = Idle
    /\ UNCHANGED <<listeners, dropped, removed, ops, limit, workers>>

\* The record of a register or unregister call of thread t that has ended.
WorkerCall(op, t, outcome) ==
    [Call(op, workers[t].listener, workers[t].types, "", EmptyMapping, AllOk,
          <<>>, [Quiet(listeners) EXCEPT !.outcome = outcome])
        EXCEPT !.already = workers[t].already]

\* The next turn of thread t's loop.
NextTurn(t) == [workers EXCEPT ![t].rest = Tail(@), ![t].pc = "head"]

\* Thread t calls register(l, *types) or unregister(l, *types).
WorkerCalls(t, op, l, types) ==
    /\ ops < limit
    /\ workers[t].pc = "idle"
    /\ workers' = [workers EXCEPT ![t] =
                      [pc |-> "head", op |-> op, listener |-> l, types |-> types,
                       rest |-> types, already |-> Already(listeners, l, types)]]
    /\ ops' = ops + 1
    /\ UNCHANGED <<listeners, dropped, removed, last, limit, run>>

\* Lines 107-109: the loop takes the next type and setdefault makes its
\* list if there is none; after the last type register returns.
RegisterHead(t) ==
    /\ workers[t].pc = "head" /\ workers[t].op = "register"
    /\ IF workers[t].rest = <<>>
       THEN /\ last' = WorkerCall("register", t, "returned")
            /\ workers' = [workers EXCEPT ![t] = IdleWorker]
            /\ UNCHANGED listeners
       ELSE /\ LET k == key(Head(workers[t].rest))
               IN  listeners' = IF k \in DOMAIN listeners THEN listeners
                                ELSE (k :> <<>>) @@ listeners
            /\ workers' = [workers EXCEPT ![t].pc = "test"]
            /\ UNCHANGED last
    /\ UNCHANGED <<dropped, removed, ops, limit, run>>

\* Line 110: the membership test.
RegisterTest(t) ==
    /\ workers[t].pc = "test" /\ workers[t].op = "register"
    /\ LET k == key(Head(workers[t].rest))
           l == workers[t].listener
       IN  IF l \in Range(listeners[k])
           THEN /\ workers' = NextTurn(t)
                /\ dropped' = dropped \ {<<l, k>>}
                /\ removed' = removed \ {<<l, k>>}
           ELSE /\ workers' = [workers EXCEPT ![t].pc = "append"]
                /\ UNCHANGED <<dropped, removed>>
    /\ UNCHANGED <<listeners, last, ops, limit, run>>

\* Line 111: the append, whatever the list holds by now.
RegisterAppend(t) ==
    /\ workers[t].pc = "append"
    /\ LET k == key(Head(workers[t].rest))
           l == workers[t].listener
       IN  /\ listeners' = [listeners EXCEPT ![k] = Append(@, l)]
           /\ dropped' = dropped \ {<<l, k>>}
           /\ removed' = removed \ {<<l, k>>}
    /\ workers' = NextTurn(t)
    /\ UNCHANGED <<last, ops, limit, run>>

\* Lines 129-133: the loop takes the next type and looks for its list; a
\* type without one is passed over; after the last type unregister returns.
UnregisterHead(t) ==
    /\ workers[t].pc = "head" /\ workers[t].op = "unregister"
    /\ IF workers[t].rest = <<>>
       THEN /\ last' = WorkerCall("unregister", t, "returned")
            /\ workers' = [workers EXCEPT ![t] = IdleWorker]
            /\ UNCHANGED removed
       ELSE /\ LET k == key(Head(workers[t].rest))
               IN  /\ workers' = IF k \in DOMAIN listeners
                                 THEN [workers EXCEPT ![t].pc = "test"]
                                 ELSE NextTurn(t)
                   /\ removed' = IF k \in DOMAIN listeners THEN removed
                                 ELSE removed \cup {<<workers[t].listener, k>>}
            /\ UNCHANGED last
    /\ UNCHANGED <<listeners, dropped, ops, limit, run>>

\* Line 135: the membership test.
UnregisterTest(t) ==
    /\ workers[t].pc = "test" /\ workers[t].op = "unregister"
    /\ LET k == key(Head(workers[t].rest))
           l == workers[t].listener
       IN  IF l \in Range(listeners[k])
           THEN /\ workers' = [workers EXCEPT ![t].pc = "remove"]
                /\ UNCHANGED removed
           ELSE /\ workers' = NextTurn(t)
                /\ removed' = removed \cup {<<l, k>>}
    /\ UNCHANGED <<listeners, dropped, last, ops, limit, run>>

\* Line 136: list.remove raises ValueError when the listener is no longer
\* in the list, and the error leaves unregister.
UnregisterRemove(t) ==
    /\ workers[t].pc = "remove"
    /\ LET k == key(Head(workers[t].rest))
           l == workers[t].listener
       IN  IF l \in Range(listeners[k])
           THEN /\ listeners' = [listeners EXCEPT ![k] = ListRemove(@, l)]
                /\ removed' = removed \cup {<<l, k>>}
                /\ workers' = NextTurn(t)
                /\ UNCHANGED last
           ELSE /\ last' = WorkerCall("unregister", t, "raised")
                /\ workers' = [workers EXCEPT ![t] = IdleWorker]
                /\ UNCHANGED <<listeners, removed>>
    /\ UNCHANGED <<dropped, ops, limit, run>>

NextThreads ==
    \/ \E t \in Threads, l \in Listeners, types \in TypeSeqs :
          WorkerCalls(t, "register", l, types)
    \/ \E t \in Threads, l \in Listeners, types \in TypeSeqs :
          WorkerCalls(t, "unregister", l, types)
    \/ \E t \in Threads : RegisterHead(t)
    \/ \E t \in Threads : RegisterTest(t)
    \/ \E t \in Threads : RegisterAppend(t)
    \/ \E t \in Threads : UnregisterHead(t)
    \/ \E t \in Threads : UnregisterTest(t)
    \/ \E t \in Threads : UnregisterRemove(t)
    \/ \E name \in RegistryNames, mapping \in Mappings : BeginDispatch(name, mapping)
    \/ FetchListener
    \/ \E b \in PlainBehaviours : CallListener(b)
    \/ HandlerTest
    \/ HandlerRemove
    \/ HandlerReport
    \/ EndDispatch

\* The threads work on a Receiver constructed with two listeners of Error.
InitThreads == ConstructedWith(SeededTable) /\ limit = MaxOps - 1
SpecThreads == InitThreads /\ [][NextThreads]_vars

\* ------------------------------------------------------- Receiver.error
\* ib.lib.overloading.overloaded: the call's argument types (self first) are
\* looked up in the registered signatures, exactly, then through each type's
\* __mro__; with no candidate the default function is used. The function
\* found is then called with the arguments as they came.
Mro(t) ==
    IF t = "bool" THEN {"bool", "int", "object"}
    ELSE IF t = "str" THEN {"str", "basestring", "object"}
    ELSE {t, "object"}
TypesOf(args) == [i \in DOMAIN args |-> args[i].t]
\* @error.register(object, str) and @error.register(object, int, int, str)
Signatures ==
    { [sig |-> <<"object", "str">>, func |-> "error_0"],
      [sig |-> <<"object", "int", "int", "str">>, func |-> "error_1"] }
Candidates(types) ==
    {s \in Signatures :
        /\ Len(s.sig) = Len(types)
        /\ \A i \in DOMAIN types : s.sig[i] \in Mro(types[i])}
\* The two signatures differ in length, so at most one is a candidate.
find_func(types) ==
    IF Candidates(types) = {} THEN "error"
    ELSE (CHOOSE s \in Candidates(types) : TRUE).func

\* The keyword arguments each of the three functions hands to dispatch.
error_1_swapped(args) ==
    [f \in {"id", "errorCode", "errorMsg"} |->
        IF f = "id" THEN args[2] ELSE IF f = "errorCode" THEN args[1] ELSE args[3]]
error_1(args) ==
    [f \in {"id", "errorCode", "errorMsg"} |->
        IF f = "id" THEN args[1] ELSE IF f = "errorCode" THEN args[2] ELSE args[3]]
error_0(args) == [f \in {"errorMsg"} |-> args[1]]
error(args) == [f \in {"errorMsg"} |-> args[1]]

\* r.error(*args): the function chosen, whether calling it with these
\* arguments raises TypeError (def error(self, e) takes exactly one), and
\* the mapping it dispatches.
ErrorAdapter(args) ==
    LET func == find_func(<<"Receiver">> \o TypesOf(args))
    IN  IF func = "error_1"
        THEN [func |-> func, raises |-> FALSE, fields |-> error_1(args)]
        ELSE IF func = "error_0"
        THEN [func |-> func, raises |-> FALSE, fields |-> error_0(args)]
        ELSE IF Len(args) = 1
        THEN [func |-> func, raises |-> FALSE, fields |-> error(args)]
        ELSE [func |-> func, raises |-> TRUE, fields |-> EmptyMapping]

\* Argument tuples the error entry point is called with.
BoolV(s) == [t |-> "bool", v |-> s]
ErrorArgs ==
    { <<IntV("7"), IntV("504"), StrV("timeout")>>,
      <<BoolV("True"), IntV("504"), StrV("timeout")>>,
      <<StrV("timeout")>>,
      <<IntV("7")>>,
      <<None>>,
      <<>>,
      <<IntV("7"), IntV("504")>>,
      <<StrV("timeout"), IntV("7"), IntV("504")>> }

Forward(name, mapping) == [name |-> name, mapping |-> mapping]

Error_(args, beh) ==
    /\ LET a == ErrorAdapter(args)
           r == IF a.raises
                THEN [Running(listeners, dropped, removed) EXCEPT
                         !.outcome = "raised"]
                ELSE dispatch(listeners, dropped, removed, "error", a.fields, beh)
       IN  /\ listeners' = r.tbl
           /\ dropped' = r.dropped
           /\ removed' = r.removed
           /\ last' = [Call("error", 0, <<>>, "error", a.fields, beh,
                            StartList(listeners, "error"), r)
                          EXCEPT !.args = args,
                                 !.forwards = IF a.raises THEN <<>>
                                              ELSE <<Forward("error", a.fields)>>]
    /\ ops' = ops + 1
    /\ UNCHANGED <<limit, run, workers>>

\* One error event from the reader.
ErrorEvent ==
    /\ ops < limit
    /\ \E args \in ErrorArgs :
          \E beh \in BehaviourChoices(StartList(listeners, "error")) :
              Error_(args, beh)

\* -------------------------------------------------------- messageMethod
\* ib.opt.message.wrapperMethods(): (method name, argument names) pairs, one
\* per EWrapper method; each becomes a method of the Receiver.
WrapperMethods ==
    { [name |-> "nextValidId", argnames |-> <<"orderId">>],
      [name |-> "tickSize", argnames |-> <<"tickerId", "field", "size">>] }

Min(a, b) == IF a < b THEN a ELSE b
\* (A variant that pairs the names with the arguments taken from the end.)
ZipFromEnd(argnames, args) ==
    LET n == Min(Len(argnames), Len(args))
    IN  [f \in {argnames[i] : i \in 1..n} |->
            args[n + 1 - (CHOOSE i \in 1..n : argnames[i] = f)]]
\* dict(zip(argnames, args)): pairs up to the shorter of the two.
Zip(argnames, args) ==
    LET n == Min(Len(argnames), Len(args))
    IN  [f \in {argnames[i] : i \in 1..n} |->
            args[CHOOSE i \in 1..n : argnames[i] = f]]

\* inner(self, *args) of messageMethod(name, argnames): its one dispatch call.
messageMethod(name, argnames, args) == Forward(name, Zip(argnames, args))

\* Positional arguments the entry points are called with.
EntryArgs ==
    { <<>>, <<IntV("1")>>, <<IntV("1"), IntV("2")>>,
      <<IntV("1"), IntV("2"), IntV("3")>> }

Entry(m, args, beh) ==
    /\ LET fw == messageMethod(m.name, m.argnames, args)
           r == dispatch(listeners, dropped, removed, fw.name, fw.mapping, beh)
       IN  /\ listeners' = r.tbl
           /\ dropped' = r.dropped
           /\ removed' = r.removed
           /\ last' = [Call("entry", 0, <<>>, m.name, fw.mapping, beh,
                            StartList(listeners, m.name), r)
                          EXCEPT !.args = args,
                                 !.argnames = m.argnames,
                                 !.forwards = <<fw>>]
    /\ ops' = ops + 1
    /\ UNCHANGED <<limit, run, workers>>

\* One event from the reader arriving through a generated method.
EntryEvent ==
    /\ ops < limit
    /\ \E m \in WrapperMethods, args \in EntryArgs :
          \E beh \in BehaviourChoices(StartList(listeners, m.name)) :
              Entry(m, args, beh)

\* The Receiver driven through its entry points.
NextEntry ==
    \/ \E l \in Listeners, types \in TypeSeqs : Register(l, types)
    \/ ErrorEvent
    \/ EntryEvent

InitEntry == Constructed /\ limit = MaxOps - 2
SpecEntry == InitEntry /\ [][NextEntry]_vars

\* ================================================================ claims
\* Number of times l was called in one dispatch.
CallCount(l, calls) == Cardinality({i \in DOMAIN calls : calls[i].listener = l})
TypeKeys(types) == {key(types[i]) : i \in DOMAIN types}
\* This step is a call on the Receiver (not a stuttering step).
Step == ops' = ops + 1
\* c is a dispatch of a known name with a mapping the constructor accepts in
\* which every listener of the list either returns or raises an Exception:
\* no listener calls back into the Receiver, none raises a BaseException.
PlainDispatch(c) ==
    /\ c.op = "dispatch"
    /\ c.name \in RegistryNames
    /\ CtorAccepts(registry[c.name], c.mapping)
    /\ \A l \in Range(c.start) : c.beh[l].kind \in {"ok", "raise"}
\* Every field supplied in the mapping has its value in the message.
CarriesMapping(message, mapping) ==
    \A f \in DOMAIN mapping :
        f \in DOMAIN message.fields /\ message.fields[f] = mapping[f]

\* C1: if a listener raises during a dispatch, every other listener that was
\* in the type's list when the dispatch started is invoked in that dispatch.
\* (Stated for plain dispatches; the code does not satisfy it.)
C1_OthersInvokedDespiteFault ==
    (PlainDispatch(last) /\ last.faulted # {}) =>
        \A l \in Range(last.start) \ last.faulted :
            CallCount(l, last.calls) >= 1

\* C2: dispatch always returns normally, whatever the name, the mapping and
\* the listeners' behaviour. (The code does not satisfy it.)
C2_DispatchReturnsNormally ==
    last.op = "dispatch" => last.outcome = "returned"

\* C3: every listener registered for the type when dispatch is called is
\* invoked exactly once, with a message carrying the supplied mapping.
\* (Stated for plain dispatches; the code does not satisfy it.)
C3_EachRegisteredInvokedOnce ==
    PlainDispatch(last) =>
        /\ \A l \in Range(last.start) : CallCount(l, last.calls) = 1
        /\ \A i \in DOMAIN last.calls :
              CarriesMapping(last.calls[i].message, last.mapping)

\* C4: a listener that raised in a dispatch of T is absent from T's list
\* when that dispatch returns, and no later dispatch of T calls it unless it
\* was registered for T again. (The code does not satisfy it.)
C4_FaultyListenerDropped ==
    last.op = "dispatch" =>
        /\ last.outcome = "returned" =>
              \A l \in last.faulted :
                  l \notin Range(StartList(listeners, last.name))
        /\ last.calledDropped = {}

\* C5: a dispatch of T in which a listener faults changes no list but T's:
\* every other entry of the table, also one holding the faulty listener, is
\* the same after the dispatch as before it.
C5_FaultChangesOnlyItsType ==
    [][(Step /\ last'.op = "dispatch" /\ last'.faulted # {}) =>
          /\ DOMAIN listeners' = DOMAIN listeners
          /\ \A k \in DOMAIN listeners :
                k # key(registry[last'.name]) => listeners'[k] = listeners[k]]_vars

\* C5 witness: a listener faulted in a dispatch that returned, it is gone
\* from the dispatched type's list and still in the list of another type.
C5_Witness ==
    /\ last.op = "dispatch"
    /\ last.outcome = "returned"
    /\ \E l \in last.faulted :
          /\ l \notin Range(StartList(listeners, last.name))
          /\ \E k \in DOMAIN listeners :
                k # key(registry[last.name]) /\ l \in Range(listeners[k])

\* C6: register(L, T) with L already in T's list leaves the table unchanged
\* and returns, so a listener registered twice is invoked exactly once per
\* dispatch of T. (Stated for plain dispatches; the code does not satisfy it.)
C6_RegisterIdempotent ==
    [][Step =>
          /\ (last'.op = "register" /\ last'.already) =>
                (listeners' = listeners /\ last'.outcome = "returned")
          /\ (/\ last.op = "register" /\ last.already
              /\ PlainDispatch(last')
              /\ key(registry[last'.name]) \in TypeKeys(last.types)) =>
                CallCount(last.listener, last'.calls) = 1]_vars

\* C7: after unregister(L, T) no dispatch of T calls L until L is registered
\* for T again, the lists of the other types are unchanged, and L is still
\* invoked by dispatches of the other types it is registered for.
\* (Stated for plain dispatches; the code does not satisfy it.)
C7_UnregisterOnlyThatType ==
    [][Step =>
          /\ last'.op = "dispatch" => last'.calledRemoved = {}
          /\ last'.op = "unregister" =>
                /\ DOMAIN listeners' = DOMAIN listeners
                /\ \A k \in DOMAIN listeners \ TypeKeys(last'.types) :
                      listeners'[k] = listeners[k]
          /\ (/\ last.op = "unregister" /\ last.types # <<>>
              /\ PlainDispatch(last')
              /\ key(registry[last'.name]) \notin TypeKeys(last.types)
              /\ last.listener \in Range(last'.start)) =>
                CallCount(last.listener, last'.calls) >= 1]_vars

\* C8: a dispatch of an unknown name, or of a known type whose list is
\* missing or empty, calls no listener, leaves the table unchanged, prints
\* nothing and returns normally. (The code does not satisfy it.)
C8_NothingToDispatchIsNoOp ==
    [][(/\ Step
        /\ last'.op = "dispatch"
        /\ (last'.name \notin RegistryNames \/ last'.start = <<>>)) =>
          /\ last'.calls = <<>>
          /\ listeners' = listeners
          /\ last'.out = <<>>
          /\ last'.outcome = "returned"]_vars

\* C9: for every name of the registry, key(name string) = key(type object),
\* so a listener registered under the name string is in the list a dispatch
\* of that name iterates. (The code does not satisfy it.)
C9_KeyNameTypeConsistent ==
    \A n \in RegistryNames :
        (last.op = "register" /\ last.types = <<StrObj(n)>>) =>
            /\ key(StrObj(n)) = key(registry[n])
            /\ last.listener \in Range(StartList(listeners, n))

\* C10: after registerAll(L) a dispatch of any known type invokes L; after
\* unregisterAll(L) no dispatch of a known type invokes L.
\* (Stated for plain dispatches; the code does not satisfy it.)
C10_RegisterAllThenUnregisterAll ==
    [][Step =>
          /\ (last.op = "registerAll" /\ PlainDispatch(last')) =>
                CallCount(last.listener, last'.calls) >= 1
          /\ (/\ last.op = "unregisterAll"
              /\ last'.op = "dispatch"
              /\ last'.name \in RegistryNames) =>
                CallCount(last.listener, last'.calls) = 0]_vars

\* The error call's arguments have one of the three recognised shapes.
Shape3(args) ==
    Len(args) = 3 /\ "int" \in Mro(args[1].t) /\ "int" \in Mro(args[2].t)
                  /\ "str" \in Mro(args[3].t)
Shape2(args) == Len(args) = 1 /\ "str" \in Mro(args[1].t)
Shape1(args) == Len(args) = 1 /\ ~Shape2(args)

\* C11: an error call of shape (int, int, str) forwards exactly one
\* dispatch('error', {id, errorCode, errorMsg}); otherwise one with a single
\* str forwards {errorMsg: value}; otherwise one with a single value of any
\* other type forwards {errorMsg: value}.
C11_ErrorAdapterShapes ==
    (last.op = "error" /\
        (Shape3(last.args) \/ Shape2(last.args) \/ Shape1(last.args))) =>
        /\ Len(last.forwards) = 1
        /\ last.forwards[1].name = "error"
        /\ Shape3(last.args) =>
              /\ DOMAIN last.forwards[1].mapping = {"id", "errorCode", "errorMsg"}
              /\ last.forwards[1].mapping["id"] = last.args[1]
              /\ last.forwards[1].mapping["errorCode"] = last.args[2]
              /\ last.forwards[1].mapping["errorMsg"] = last.args[3]
        /\ (Shape2(last.args) \/ Shape1(last.args)) =>
              /\ DOMAIN last.forwards[1].mapping = {"errorMsg"}
              /\ last.forwards[1].mapping["errorMsg"] = last.args[1]

\* C11 witness: a three-argument error call reached a listener registered
\* for the error type, with the three fields in the message.
C11_Witness ==
    /\ last.op = "error"
    /\ Shape3(last.args)
    /\ Len(last.calls) >= 1
    /\ last.calls[1].message.fields["errorCode"] = last.args[2]

\* C12: an error call whose arguments match none of the three shapes does
\* not raise: it forwards one dispatch('error', {errorMsg: ...}).
\* (The code does not satisfy it.)
C12_MalformedErrorArgsFallBack ==
    (last.op = "error" /\
        ~(Shape3(last.args) \/ Shape2(last.args) \/ Shape1(last.args))) =>
        /\ Len(last.forwards) = 1
        /\ last.forwards[1].name = "error"
        /\ DOMAIN last.forwards[1].mapping = {"errorMsg"}

\* The listeners called in one dispatch, in the order of the calls.
Called(calls) == [i \in DOMAIN calls |-> calls[i].listener]
\* i is the first call of its listener.
FirstCall(calls, i) == \A j \in 1..(i - 1) : calls[j].listener # calls[i].listener
\* The listeners are called in the order they have in lst.
InListOrder(calls, lst) ==
    /\ Range(Called(calls)) \subseteq Range(lst)
    /\ \A i, j \in DOMAIN calls :
          (i < j /\ FirstCall(calls, i) /\ FirstCall(calls, j)) =>
              FirstIndex(lst, calls[i].listener) < FirstIndex(lst, calls[j].listener)
\* No listener of the dispatch faults or calls back into the Receiver.
QuietDispatch(c) ==
    PlainDispatch(c) /\ \A l \in Range(c.start) : c.beh[l].kind = "ok"

\* C13: a dispatch of T calls the listeners in the order of T's list (a
\* dispatch in which every listener just returns calls exactly the list, in
\* order); register appends a listener that is not in the list at its end,
\* so unregister followed by register leaves the listener last, behind the
\* listeners that stayed.
C13_RegistrationOrder ==
    [][Step =>
          /\ last'.op = "dispatch" => InListOrder(last'.calls, last'.start)
          /\ QuietDispatch(last') => Called(last'.calls) = last'.start
          /\ last'.op = "register" =>
                \A k \in TypeKeys(last'.types) :
                    LET old == IF k \in DOMAIN listeners THEN listeners[k] ELSE <<>>
                    IN  listeners'[k] = IF last'.listener \in Range(old) THEN old
                                        ELSE Append(old, last'.listener)
          /\ (/\ last.op = "unregister" /\ last'.op = "register"
              /\ last'.listener = last.listener) =>
                \A k \in TypeKeys(last.types) \cap TypeKeys(last'.types) :
                    listeners'[k][Len(listeners'[k])] = last.listener]_vars

\* C13 witness: listener 1 stood before listener 2 in the Error list the
\* Receiver was constructed with; it was taken out of the list and then
\* registered again, and now stands behind 2.
C13_Witness ==
    /\ last.op = "register"
    /\ last.listener = 1
    /\ ~last.already
    /\ listeners["Error"] = <<2, 1>>

\* l is in the list of none of the types named.
InNone(tbl, l, types) ==
    \A k \in TypeKeys(types) : k \notin DOMAIN tbl \/ l \notin Range(tbl[k])

\* C14: unregister(L, T) with no entry for T in the table, or with L not in
\* T's list, returns without an error and leaves the whole table as it was:
\* no entry is made for T and no listener is removed.
C14_UnregisterAbsentIsNoOp ==
    [][(/\ Step
        /\ last'.op = "unregister"
        /\ last'.types # <<>>
        /\ InNone(listeners, last'.listener, last'.types)) =>
          /\ listeners' = listeners
          /\ last'.outcome = "returned"]_vars

\* C14 witness: unregister was called for types without an entry while the
\* table holds listeners of another type; there is still no entry for them.
C14_Witness ==
    /\ last.op = "unregister"
    /\ last.types # <<>>
    /\ \A k \in TypeKeys(last.types) : k \notin DOMAIN listeners
    /\ \E k \in DOMAIN listeners : listeners[k] # <<>>

\* C15: a generated entry point called with positional arguments makes one
\* dispatch call, under its own name, with the mapping that gives the i-th
\* argument name the i-th argument (as far as both go), and the call does
\* what that dispatch does and nothing more.
C15_EntryPointZipsAndDispatches ==
    [][(Step /\ last'.op = "entry") =>
          /\ Len(last'.forwards) = 1
          /\ last'.forwards[1].name = last'.name
          /\ LET n == Min(Len(last'.argnames), Len(last'.args))
                 mapping == last'.forwards[1].mapping
             IN  /\ DOMAIN mapping = {last'.argnames[i] : i \in 1..n}
                 /\ \A i \in 1..n : mapping[last'.argnames[i]] = last'.args[i]
          /\ LET r == dispatch(listeners, dropped, removed, last'.name,
                               last'.forwards[1].mapping, last'.beh)
             IN  /\ listeners' = r.tbl
                 /\ last'.calls = r.calls
                 /\ last'.out = r.out
                 /\ last'.outcome = r.outcome]_vars

\* C15 witness: tickSize(1, 2, 3) was called and its dispatch carries
\* tickerId = 1, field = 2, size = 3.
C15_Witness ==
    /\ last.op = "entry"
    /\ last.name = "tickSize"
    /\ Len(last.args) = 3
    /\ Len(last.forwards) = 1
    /\ last.forwards[1].mapping["field"] = last.args[2]
    /\ last.forwards[1].mapping["size"] = last.args[3]

\* The entries of the diagnostic output that concern listener l.
ReportOf(out, l) == {i \in DOMAIN out : out[i].listener = l}

\* C16: every listener fault of a dispatch yields exactly one report, on one
\* sink, naming the listener and the dispatched name and holding the
\* exception's message and its traceback; the fault is not raised to the
\* caller, and a dispatch without a fault prints nothing.
\* (Stated for plain dispatches; the code does not satisfy it.)
C16_FaultFullyReported ==
    PlainDispatch(last) =>
        /\ last.outcome = "returned"
        /\ last.faulted = {} => last.out = <<>>
        /\ \A l \in last.faulted :
              /\ Cardinality({i \in ReportOf(last.out, l) :
                                 /\ last.out[i].text = "errmsg"
                                 /\ last.out[i].name = last.name}) = 1
              /\ \E i \in ReportOf(last.out, l) : last.out[i].text = "traceback"
              /\ \E i \in ReportOf(last.out, l) : last.out[i].text = "excmsg"
              /\ \A i, j \in ReportOf(last.out, l) :
                    last.out[i].stream = last.out[j].stream

\* C17: while a dispatch of T is between the start and the end of its loop,
\* no step of a register or unregister call of another thread changes T's
\* list. (The code does not satisfy it.)
C17_NoChangeDuringFanOut ==
    [][(run.active /\ workers' # workers) =>
          StartList(listeners', run.name) = StartList(listeners, run.name)]_vars

\* C18: from an empty table, whatever calls of register, registerAll,
\* unregister, unregisterAll and dispatch are made, no list of the table
\* holds the same listener twice.
C18_NoDuplicateListeners ==
    \A k \in DOMAIN listeners :
        \A i, j \in DOMAIN listeners[k] :
            i # j => listeners[k][i] # listeners[k][j]

\* C18 witness: a listener was registered for types whose lists all held it
\* already, one of them together with another listener.
C18_Witness ==
    /\ last.op = "register"
    /\ last.already
    /\ \E k \in TypeKeys(last.types) :
          /\ Len(listeners[k]) >= 2
          /\ CallCount(last.listener, [i \in DOMAIN listeners[k] |->
                                          [listener |-> listeners[k][i]]]) = 1

\* c is a dispatch of a known name with an accepted mapping in which every
\* listener returns, some after calling register or unregister for the
\* dispatched type; none raises.
CallbackDispatch(c) ==
    /\ c.op = "dispatch"
    /\ c.name \in RegistryNames
    /\ CtorAccepts(registry[c.name], c.mapping)
    /\ \A l \in Range(c.start) :
          c.beh[l].kind \in {"ok", "unregister", "reregister"}

\* C19: one dispatch calls each listener at most once, also when listeners
\* register or unregister for the dispatched type while they are called.
\* (The code does not satisfy it.)
C19_AtMostOncePerDispatch ==
    CallbackDispatch(last) =>
        \A l \in Listeners : CallCount(l, last.calls) <= 1

\* C20: if listeners unregister themselves or listeners already called,
\* without raising, every listener that was in the list when the dispatch
\* started and was not unregistered is still called in that dispatch.
\* (The code does not satisfy it.)
C20_UnregisterInCallSkipsNobody ==
    (/\ CallbackDispatch(last)
     /\ \A l \in Range(last.start) : last.beh[l].kind \in {"ok", "unregister"}
     /\ \A i \in DOMAIN last.calls :
           LET b == last.beh[last.calls[i].listener]
           IN  b.kind = "unregister" =>
                   \E j \in 1..i : last.calls[j].listener = b.target) =>
        \A l \in Range(last.start) :
            l \in Range(StartList(listeners, last.name)) =>
                CallCount(l, last.calls) >= 1

====
